---- MODULE Spec2Model ----
(***************************************************************************)
(* Model of the pdf-combiner scripts.                                      *)
(*                                                                         *)
(*   main.py              convert_xlsx_to_pdf (the spreadsheet table       *)
(*                        renderer) and main (XLSX conversion followed by  *)
(*                        the PDF merge)                                   *)
(*   convert_ms_files.py  convert_pptx_to_pdf / convert_xlsx_to_pdf (COM   *)
(*                        automation) and the directory driver             *)
(*                                                                         *)
(* Strings are sequences of one-character strings.  Lengths are exact      *)
(* rationals in hundredths of an inch (the source multiplies every width   *)
(* by the same constant `inch`); floating point rounding is not modelled.  *)
(***************************************************************************)
EXTENDS Integers, Sequences, FiniteSets, TLC

VARIABLES
    \* ---- main.py, convert_xlsx_to_pdf (renderer) ----
    xlsx,           \* the workbook stored in the input file (the input)
    rpc,            \* position in convert_xlsx_to_pdf
    wb,             \* the loaded workbook: sequence of sheets
    sheet_idx,      \* number of sheets the loop has processed
    elements,       \* the document model: sequence of layout blocks
    data,           \* `data` of the sheet processed last
    max_col_count,  \* `max_col_count` of the sheet processed last
    col_widths,     \* `col_widths` of the sheet that rendered a table last
    result,         \* return value of convert_xlsx_to_pdf ("none" while running)
    \* ---- main.py, main (conversion pass and merge) ----
    fs,             \* the directory: file name -> file contents
    fs0,            \* the directory when main() started
    mpc,            \* position in main()
    xlsx_files,     \* sorted(current_dir.glob("*.xlsx"))
    xlsx_done,      \* number of workbooks the conversion loop has handled
    converted_pdfs, \* outputs of the successful conversions
    pdf_files,      \* the merge inputs
    pdf_done,       \* number of inputs the merge loop has handled
    merger,         \* pages held by the PdfWriter
    log,            \* what was printed, as a sequence of events
    \* ---- convert_ms_files.py ----
    odir,           \* the working directory: file name -> contents
    todo,           \* entries of os.listdir() the loop has not reached yet
    opc,            \* position in the driver and the converter it called
    cur,            \* the converter call in progress (<<>> when none)
    app,            \* `powerpoint` / `excel`: <<>> is None
    doc,            \* `deck` / `workbook`: <<>> is None
    live_apps,      \* application instances created and not quit
    open_docs,      \* documents opened and not closed
    is_com_initialized,
    exit_code,      \* exit status, meaningful once opc = "exited"
    converted_count,
    skipped_count,
    calls,          \* the converter calls made, in order
    examined        \* the directory entries the loop has looked at, in order

rvars == <<xlsx, rpc, wb, sheet_idx, elements, data, max_col_count, col_widths, result>>
mvars == <<fs, fs0, mpc, xlsx_files, xlsx_done, converted_pdfs, pdf_files, pdf_done,
           merger, log>>

ovars == <<odir, todo, opc, cur, app, doc, live_apps, open_docs, is_com_initialized,
           exit_code, converted_count, skipped_count, calls, examined>>

vars == <<rvars, mvars, ovars>>

\* What each program leaves alone
OutsideRender == <<mvars, ovars>>
OutsideMain == <<rvars, ovars>>
OutsideOffice == <<rvars, mvars>>

----------------------------------------------------------------------------
(* Bounds of the model *)

MaxRows == 3        \* rows per sheet (row-filter inputs)
MaxSheets == 3      \* sheets per workbook (sheet-section inputs)
WMaxCols == 4       \* columns per sheet (column-width inputs)
MaxPages == 2       \* pages per PDF file in the directory
MaxFiles == 3       \* entries of the directory the office driver scans

----------------------------------------------------------------------------
(* Generic helpers *)

Min(a, b) == IF a < b THEN a ELSE b
Max(a, b) == IF a > b THEN a ELSE b

RECURSIVE GCD(_, _)
GCD(a, b) == IF b = 0 THEN a ELSE GCD(b, a % b)

\* A rational <<n, d>> in lowest terms.
Reduce(q) == LET g == GCD(q[1], q[2]) IN <<q[1] \div g, q[2] \div g>>

RECURSIVE SumSeq(_)
SumSeq(s) == IF s = <<>> THEN 0 ELSE Head(s) + SumSeq(Tail(s))

RECURSIVE Concat(_)
Concat(ss) == IF ss = <<>> THEN <<>> ELSE Head(ss) \o Concat(Tail(ss))

Repeat(c, n) == [i \in 1..n |-> c]

----------------------------------------------------------------------------
(* Cell values and their conversion to strings: main.py line 88 *)

NoneCell == [t |-> "none"]
StrCell(s) == [t |-> "str", s |-> s]
NumCell(n) == [t |-> "num", n |-> n]

DigitChars == <<"0", "1", "2", "3", "4", "5", "6", "7", "8", "9">>

RECURSIVE Decimal(_)
Decimal(n) ==
    IF n < 10 THEN <<DigitChars[n + 1]>>
    ELSE Decimal(n \div 10) \o <<DigitChars[(n % 10) + 1]>>

\* str(cell) if cell is not None else ""
CellStr(cell) ==
    CASE cell.t = "none" -> <<>>
      [] cell.t = "str" -> cell.s
      [] cell.t = "num" -> Decimal(cell.n)

IsSpace(c) == c \in {" ", "\t", "\n"}

RECURSIVE LStrip(_)
LStrip(s) == IF s # <<>> /\ IsSpace(Head(s)) THEN LStrip(Tail(s)) ELSE s

RECURSIVE RStrip(_)
RStrip(s) ==
    IF s # <<>> /\ IsSpace(s[Len(s)]) THEN RStrip(SubSeq(s, 1, Len(s) - 1)) ELSE s

\* str.strip()
Strip(s) == RStrip(LStrip(s))

----------------------------------------------------------------------------
(* The per-sheet table computation: main.py lines 82-135 *)

\* line 88
RowData(row) == [i \in 1..Len(row) |-> CellStr(row[i])]

\* line 90, without the strip
KeepRowNoStrip(row_data) == \E i \in 1..Len(row_data) : row_data[i] # <<>>

\* line 90: any(cell.strip() for cell in row_data)
KeepRow(row_data) == \E i \in 1..Len(row_data) : Strip(row_data[i]) # <<>>

\* lines 83-92: the kept rows, in sheet order, before padding
RECURSIVE CollectRows(_)
CollectRows(rows) ==
    IF rows = <<>> THEN <<>>
    ELSE LET row_data == RowData(Head(rows))
         IN  (IF KeepRow(row_data) THEN <<row_data>> ELSE <<>>)
                \o CollectRows(Tail(rows))

\* lines 84, 92
RECURSIVE MaxColCount(_)
MaxColCount(kept) ==
    IF kept = <<>> THEN 0 ELSE Max(Len(Head(kept)), MaxColCount(Tail(kept)))

\* lines 96-98
PadRows(kept, m) ==
    [r \in 1..Len(kept) |-> kept[r] \o Repeat(<<>>, m - Len(kept[r]))]

\* lines 83-98: `data` as the table is built from it
SheetData(rows) ==
    LET kept == CollectRows(rows) IN PadRows(kept, MaxColCount(kept))

\* lines 101-117
ParagraphData(d) ==
    [r \in 1..Len(d) |->
        [c \in 1..Len(d[r]) |->
            [text  |-> IF Strip(d[r][c]) = <<>> THEN <<" ">> ELSE Strip(d[r][c]),
             style |-> IF r = 1 THEN "CellHeader" ELSE "CellNormal"]]]

\* Program constants, hundredths of an inch
MinWidth == 120
MaxWidth == 350
PerChar == 8
\* landscape(A4)[0] - 1.0 * inch = (297/25.4 - 1) inch = AvailNum/AvailDen
\* hundredths of an inch
AvailNum == 135800
AvailDen == 127

\* lines 122-126
RECURSIVE MaxLenOfColumn(_, _)
MaxLenOfColumn(d, c) ==
    IF d = <<>> THEN 0 ELSE Max(Len(Head(d)[c]), MaxLenOfColumn(Tail(d), c))

\* line 128 without the cap
ColWidthNoCap(max_len) == Max(MinWidth, max_len * PerChar)

\* line 128: min(max(1.2, max_len * 0.08), 3.5) * inch
ColWidth(max_len) == Min(Max(MinWidth, max_len * PerChar), MaxWidth)

\* lines 120-129
EstimatedWidths(d, m) == [c \in 1..m |-> ColWidth(MaxLenOfColumn(d, c))]

\* lines 132-135; every width is the rational <<numerator, denominator>>
ScaleToFit(widths) ==
    LET total_width == SumSeq(widths)
    IN  IF total_width * AvailDen > AvailNum
        THEN [c \in 1..Len(widths) |-> <<widths[c] * AvailNum, total_width * AvailDen>>]
        ELSE [c \in 1..Len(widths) |-> <<widths[c], 1>>]

----------------------------------------------------------------------------
(* Layout blocks: main.py lines 74-80 and 173-174 *)

PageBreak == [type |-> "PageBreak"]
Heading(name) == [type |-> "Heading", text |-> name]
Spacer(h) == [type |-> "Spacer", height |-> h]
TableBlock(cells, widths) == [type |-> "Table", cells |-> cells, colWidths |-> widths]

\* lines 74-80; idx is the zero-based sheet_idx
SheetHeader(book, idx) ==
    IF Len(book) > 1
    THEN (IF idx > 0 THEN <<PageBreak>> ELSE <<>>)
            \o <<Heading(book[idx + 1].name), Spacer(20)>>
    ELSE <<>>

\* lines 94, 137-174
SheetTable(d, widths) ==
    IF d # <<>>
    THEN <<TableBlock(ParagraphData(d), widths), Spacer(30)>>
    ELSE <<>>

\* lines 25-41: the locals on entry of convert_xlsx_to_pdf
RenderStart ==
    /\ rpc = "load"
    /\ wb = <<>>
    /\ sheet_idx = 0
    /\ elements = <<>>
    /\ data = <<>>
    /\ max_col_count = 0
    /\ col_widths = <<>>
    /\ result = "none"

----------------------------------------------------------------------------
(* File names and the directory *)

\* The characters of file names, in code point order
AsciiOrder ==
    <<".", "A", "B", "C", "D", "E", "F", "G", "H", "I", "J", "K", "L", "M", "N",
      "O", "P", "Q", "R", "S", "T", "U", "V", "W", "X", "Y", "Z", "_", "a", "b",
      "c", "d", "e", "f", "g", "h", "i", "j", "k", "l", "m", "n", "o", "p", "q",
      "r", "s", "t", "u", "v", "w", "x", "y", "z">>
OrdTable ==
    [c \in {AsciiOrder[i] : i \in 1..Len(AsciiOrder)} |->
        CHOOSE i \in 1..Len(AsciiOrder) : AsciiOrder[i] = c]
Ord(c) == OrdTable[c]

\* s < t for strings
RECURSIVE LessStr(_, _)
LessStr(s, t) ==
    IF t = <<>> THEN FALSE
    ELSE IF s = <<>> THEN TRUE
    ELSE IF Head(s) = Head(t) THEN LessStr(Tail(s), Tail(t))
    ELSE Ord(Head(s)) < Ord(Head(t))

\* sorted(...) descending
RECURSIVE SortedDescending(_)
SortedDescending(S) ==
    IF S = {} THEN <<>>
    ELSE LET m == CHOOSE x \in S : \A y \in S \ {x} : LessStr(y, x)
         IN  <<m>> \o SortedDescending(S \ {m})

\* sorted(...) of a set of names
RECURSIVE Sorted(_)
Sorted(S) ==
    IF S = {} THEN <<>>
    ELSE LET m == CHOOSE x \in S : \A y \in S \ {x} : LessStr(x, y)
         IN  <<m>> \o Sorted(S \ {m})

EndsWith(s, suffix) ==
    /\ Len(s) >= Len(suffix)
    /\ SubSeq(s, Len(s) - Len(suffix) + 1, Len(s)) = suffix

\* current_dir.glob("*" + suffix)
Glob(dir, suffix) == {n \in DOMAIN dir : EndsWith(n, suffix)}

\* Index of the last "." of a name, 0 when there is none
LastDot(name) ==
    LET dots == {i \in 1..Len(name) : name[i] = "."}
    IN  IF dots = {} THEN 0 ELSE CHOOSE i \in dots : \A j \in dots : j <= i

\* Path.stem
PathStem(name) ==
    IF LastDot(name) > 1 /\ LastDot(name) < Len(name)
    THEN SubSeq(name, 1, LastDot(name) - 1)
    ELSE name

DotPdf == <<".", "p", "d", "f">>
DotXlsx == <<".", "x", "l", "s", "x">>
ConvertedSuffix == <<"_", "c", "o", "n", "v", "e", "r", "t", "e", "d", ".", "p", "d", "f">>
CombinedName == <<"c", "o", "m", "b", "i", "n", "e", "d", "_", "o", "u", "t", "p", "u", "t", ".", "p", "d", "f">>

\* line 200: f"{xlsx_file.stem}_converted.pdf"
OutputPdf(xlsx_file) == PathStem(xlsx_file) \o ConvertedSuffix

\* File contents.  A PDF holds pages; it may fail to open (openable = FALSE)
\* or fail while its page number `bad` is read (bad = 0: no page fails).
\* A workbook is loadable (openable) or not.
PdfFile(pages, openable, bad) ==
    [kind |-> "pdf", pages |-> pages, openable |-> openable, bad |-> bad]
XlsxFile(loadable) == [kind |-> "xlsx", pages |-> <<>>, openable |-> loadable, bad |-> 0]
OtherFile == [kind |-> "other", pages |-> <<>>, openable |-> FALSE, bad |-> 0]
Absent == [kind |-> "absent", pages |-> <<>>, openable |-> FALSE, bad |-> 0]

PagesOf(name, n) == [i \in 1..n |-> <<name, i>>]
\* The PDF a successful doc.build writes
RenderedPdf(name) == PdfFile(PagesOf(name, 1), TRUE, 0)
\* What a doc.build that fails while writing leaves at the output path
PartialPdf == PdfFile(<<>>, FALSE, 0)

Write(dir, name, file) == (name :> file) @@ dir

----------------------------------------------------------------------------
(* main() of main.py *)

\* line 208 without the exclusion
IsMergeInputAny(name) == TRUE

\* line 208: pdf.name != "combined_output.pdf"
IsMergeInput(name) == name # CombinedName

\* lines 207-208
MergeInputs(dir) == SelectSeq(Sorted(Glob(dir, DotPdf)), IsMergeInput)

\* lines 225-231: the pages of one input that reach the writer; an error at
\* open adds none, an error at page `bad` leaves the pages before it added
PagesAdded(file) ==
    IF ~file.openable THEN <<>>
    ELSE IF file.bad = 0 THEN file.pages
    ELSE SubSeq(file.pages, 1, file.bad - 1)
ReadRaises(file) == ~file.openable \/ file.bad # 0

\* lines 188-189
ScanXlsx ==
    /\ mpc = "start"
    /\ xlsx_files' = Sorted(Glob(fs, DotXlsx))
    /\ converted_pdfs' = <<>>
    /\ mpc' = "convert"
    /\ UNCHANGED <<fs, fs0, xlsx_done, pdf_files, pdf_done, merger, log>>
    /\ UNCHANGED OutsideMain

\* lines 199-203 with convert_xlsx_to_pdf returning True (lines 27-178)
ConvertOk ==
    /\ mpc = "convert"
    /\ xlsx_done < Len(xlsx_files)
    /\ LET xlsx_file == xlsx_files[xlsx_done + 1]
           output_pdf == OutputPdf(xlsx_file)
       IN  /\ fs[xlsx_file].openable
           /\ fs' = Write(fs, output_pdf, RenderedPdf(output_pdf))
           /\ converted_pdfs' = Append(converted_pdfs, output_pdf)
           /\ log' = Append(log, <<"Converted", xlsx_file>>)
    /\ xlsx_done' = xlsx_done + 1
    /\ UNCHANGED <<fs0, mpc, xlsx_files, pdf_files, pdf_done, merger>>
    /\ UNCHANGED OutsideMain

\* lines 199-201 with convert_xlsx_to_pdf returning False (lines 179-181)
\* after load_workbook or the layout raised: nothing was written
ConvertFailsBeforeWrite ==
    /\ mpc = "convert"
    /\ xlsx_done < Len(xlsx_files)
    /\ log' = Append(log, <<"Error converting", xlsx_files[xlsx_done + 1]>>)
    /\ xlsx_done' = xlsx_done + 1
    /\ UNCHANGED <<fs, fs0, mpc, xlsx_files, converted_pdfs, pdf_files, pdf_done, merger>>
    /\ UNCHANGED OutsideMain

\* lines 199-201 with convert_xlsx_to_pdf returning False (lines 179-181)
\* after doc.build (line 177) opened output_path and the write raised
ConvertFailsInWrite ==
    /\ mpc = "convert"
    /\ xlsx_done < Len(xlsx_files)
    /\ LET xlsx_file == xlsx_files[xlsx_done + 1]
       IN  /\ fs[xlsx_file].openable
           /\ fs' = Write(fs, OutputPdf(xlsx_file), PartialPdf)
           /\ log' = Append(log, <<"Error converting", xlsx_file>>)
    /\ xlsx_done' = xlsx_done + 1
    /\ UNCHANGED <<fs0, mpc, xlsx_files, converted_pdfs, pdf_files, pdf_done, merger>>
    /\ UNCHANGED OutsideMain

\* lines 207-212: no input, report and return
ScanPdfsNone ==
    /\ mpc = "convert"
    /\ xlsx_done = Len(xlsx_files)
    /\ pdf_files' = MergeInputs(fs)
    /\ pdf_files' = <<>>
    /\ log' = Append(log, <<"No PDF files found to merge.">>)
    /\ mpc' = "done"
    /\ UNCHANGED <<fs, fs0, xlsx_files, xlsx_done, converted_pdfs, pdf_done, merger>>
    /\ UNCHANGED OutsideMain

\* lines 207-220
ScanPdfsSome ==
    /\ mpc = "convert"
    /\ xlsx_done = Len(xlsx_files)
    /\ pdf_files' = MergeInputs(fs)
    /\ pdf_files' # <<>>
    /\ merger' = <<>>
    /\ mpc' = "merge"
    /\ UNCHANGED <<fs, fs0, xlsx_files, xlsx_done, converted_pdfs, pdf_done, log>>
    /\ UNCHANGED OutsideMain

\* lines 224-231: one iteration of the merge loop
MergeOne ==
    /\ mpc = "merge"
    /\ pdf_done < Len(pdf_files)
    /\ LET pdf_file == pdf_files[pdf_done + 1]
       IN  /\ merger' = merger \o PagesAdded(fs[pdf_file])
           /\ log' = Append(log, IF ReadRaises(fs[pdf_file])
                                  THEN <<"Error adding", pdf_file>>
                                  ELSE <<"Added", pdf_file>>)
    /\ pdf_done' = pdf_done + 1
    /\ UNCHANGED <<fs, fs0, mpc, xlsx_files, xlsx_done, converted_pdfs, pdf_files>>
    /\ UNCHANGED OutsideMain

\* lines 234-238
WriteOutput ==
    /\ mpc = "merge"
    /\ pdf_done = Len(pdf_files)
    /\ fs' = Write(fs, CombinedName, PdfFile(merger, TRUE, 0))
    /\ log' = Append(log, <<"Successfully combined">>)
    /\ mpc' = "done"
    /\ UNCHANGED <<fs0, xlsx_files, xlsx_done, converted_pdfs, pdf_files, pdf_done, merger>>
    /\ UNCHANGED OutsideMain

\* line 235 raises: the exception leaves main()
WriteOutputFails ==
    /\ mpc = "merge"
    /\ pdf_done = Len(pdf_files)
    /\ mpc' = "raised"
    /\ UNCHANGED <<fs, fs0, xlsx_files, xlsx_done, converted_pdfs, pdf_files, pdf_done,
                   merger, log>>
    /\ UNCHANGED OutsideMain

MainNext ==
    \/ ScanXlsx
    \/ ConvertOk
    \/ ConvertFailsBeforeWrite
    \/ ConvertFailsInWrite
    \/ ScanPdfsNone
    \/ ScanPdfsSome
    \/ MergeOne
    \/ WriteOutput
    \/ WriteOutputFails

MainStart ==
    /\ fs0 = fs
    /\ mpc = "start"
    /\ xlsx_files = <<>>
    /\ xlsx_done = 0
    /\ converted_pdfs = <<>>
    /\ pdf_files = <<>>
    /\ pdf_done = 0
    /\ merger = <<>>
    /\ log = <<>>

MainIdle == fs = <<>> /\ MainStart

----------------------------------------------------------------------------
(* convert_xlsx_to_pdf of main.py as a state machine *)

\* line 29: load_workbook succeeds
LoadWorkbook ==
    /\ rpc = "load"
    /\ wb' = xlsx
    /\ rpc' = "sheets"
    /\ UNCHANGED <<xlsx, sheet_idx, elements, data, max_col_count, col_widths, result>>
    /\ UNCHANGED OutsideRender

\* line 29 raises; lines 179-181
LoadFails ==
    /\ rpc = "load"
    /\ rpc' = "done"
    /\ result' = FALSE
    /\ UNCHANGED <<xlsx, wb, sheet_idx, elements, data, max_col_count, col_widths>>
    /\ UNCHANGED OutsideRender

\* lines 70-174: one iteration of the sheet loop
ProcessSheet ==
    /\ rpc = "sheets"
    /\ sheet_idx < Len(wb)
    /\ LET rows   == wb[sheet_idx + 1].rows
           d      == SheetData(rows)
           m      == MaxColCount(CollectRows(rows))
           widths == ScaleToFit(EstimatedWidths(d, m))
       IN  /\ data' = d
           /\ max_col_count' = m
           /\ col_widths' = IF d # <<>> THEN widths ELSE col_widths
           /\ elements' = elements \o SheetHeader(wb, sheet_idx) \o SheetTable(d, widths)
    /\ sheet_idx' = sheet_idx + 1
    /\ UNCHANGED <<xlsx, rpc, wb, result>>
    /\ UNCHANGED OutsideRender

\* lines 177-178: doc.build succeeds
BuildDoc ==
    /\ rpc = "sheets"
    /\ sheet_idx = Len(wb)
    /\ rpc' = "done"
    /\ result' = TRUE
    /\ UNCHANGED <<xlsx, wb, sheet_idx, elements, data, max_col_count, col_widths>>
    /\ UNCHANGED OutsideRender

\* line 177 raises; lines 179-181
BuildFails ==
    /\ rpc = "sheets"
    /\ sheet_idx = Len(wb)
    /\ rpc' = "done"
    /\ result' = FALSE
    /\ UNCHANGED <<xlsx, wb, sheet_idx, elements, data, max_col_count, col_widths>>
    /\ UNCHANGED OutsideRender

RenderNext == LoadWorkbook \/ LoadFails \/ ProcessSheet \/ BuildDoc \/ BuildFails

----------------------------------------------------------------------------
(* convert_ms_files.py: path helpers *)

\* str.lower() of one character
LowerChar(c) == IF Ord(c) \in 2..27 THEN AsciiOrder[Ord(c) + 27] ELSE c
Lower(s) == [i \in 1..Len(s) |-> LowerChar(s[i])]

\* os.path.splitext: <<root, ext>>; the extension starts at the last dot
\* unless only dots precede it
SplitExt(name) ==
    LET d == LastDot(name)
    IN  IF d > 0 /\ \E i \in 1..(d - 1) : name[i] # "."
        THEN <<SubSeq(name, 1, d - 1), SubSeq(name, d, Len(name))>>
        ELSE <<name, <<>>>>

PowerPointExts == {<<".", "p", "p", "t", "x">>, <<".", "p", "p", "t">>}
ExcelExts == {<<".", "x", "l", "s", "x">>, <<".", "x", "l", "s">>}

\* lines 152-153
IsPowerPoint(file) == Lower(SplitExt(file)[2]) \in PowerPointExts
IsExcel(file) == Lower(SplitExt(file)[2]) \in ExcelExts

\* line 159 without replacing the extension
PdfOutputNameAppended(file) == file \o DotPdf

\* lines 149, 159: pdf_output_name
PdfOutputName(file) == SplitExt(file)[1] \o DotPdf

\* line 168: os.path.abspath(file), a path of the working directory
AbsPath(file) == [dir |-> "cwd", name |-> file]

\* lines 21-23 / 83-85: the default output path
DefaultOutput(input) == [dir |-> input.dir, name |-> SplitExt(input.name)[1] \o DotPdf]

NoObject == <<>>
OfficeFile == "office document"
ExistingPdf == "pdf from an earlier run"
ExportedPdf(input) == <<"export of", input.name>>

----------------------------------------------------------------------------
(* convert_ms_files.py: the driver and the two converters.  The converters *)
(* have the same structure (lines 7-59 and 63-133); `cur.fn` says which    *)
(* one runs.                                                               *)

\* lines 196-198: CoInitialize succeeds, main() starts with os.listdir()
CoInitialize ==
    /\ opc = "init"
    /\ is_com_initialized' = TRUE
    /\ todo' = DOMAIN odir
    /\ opc' = "loop"
    /\ UNCHANGED <<odir, cur, app, doc, live_apps, open_docs, exit_code,
                   converted_count, skipped_count, calls, examined>>
    /\ UNCHANGED OutsideOffice

\* lines 196-197 raise; lines 200-205
CoInitializeFails ==
    /\ opc = "init"
    /\ exit_code' = 1
    /\ opc' = "exited"
    /\ UNCHANGED <<odir, todo, cur, app, doc, live_apps, open_docs, is_com_initialized,
                   converted_count, skipped_count, calls, examined>>
    /\ UNCHANGED OutsideOffice

\* What the loop saw when it reached an entry
Examination(file) == [file |-> file, dir |-> odir]

\* lines 147-156: an entry that is no office file
SkipOtherFile ==
    /\ opc = "loop"
    /\ \E file \in todo :
          /\ ~(IsPowerPoint(file) \/ IsExcel(file))
          /\ todo' = todo \ {file}
          /\ examined' = Append(examined, Examination(file))
    /\ UNCHANGED <<odir, opc, cur, app, doc, live_apps, open_docs, is_com_initialized,
                   exit_code, converted_count, skipped_count, calls>>
    /\ UNCHANGED OutsideOffice

\* lines 147-164: the PDF exists already
SkipConverted ==
    /\ opc = "loop"
    /\ \E file \in todo :
          /\ IsPowerPoint(file) \/ IsExcel(file)
          /\ PdfOutputName(file) \in DOMAIN odir
          /\ todo' = todo \ {file}
          /\ examined' = Append(examined, Examination(file))
    /\ skipped_count' = skipped_count + 1
    /\ UNCHANGED <<odir, opc, cur, app, doc, live_apps, open_docs, is_com_initialized,
                   exit_code, converted_count, calls>>
    /\ UNCHANGED OutsideOffice

\* lines 147-174 / 181 and the entry of the converter, lines 18-32 / 80-94
StartConversion ==
    /\ opc = "loop"
    /\ \E file \in todo :
          /\ IsPowerPoint(file) \/ IsExcel(file)
          /\ PdfOutputName(file) \notin DOMAIN odir
          /\ todo' = todo \ {file}
          /\ examined' = Append(examined, Examination(file))
          /\ LET call == [fn     |-> IF IsPowerPoint(file) THEN "convert_pptx_to_pdf"
                                                          ELSE "convert_xlsx_to_pdf",
                          input  |-> AbsPath(file),
                          output |-> DefaultOutput(AbsPath(file))]
             IN  /\ cur' = call
                 /\ calls' = Append(calls, call)
    /\ app' = NoObject
    /\ doc' = NoObject
    /\ opc' = "create"
    /\ UNCHANGED <<odir, live_apps, open_docs, is_com_initialized, exit_code,
                   converted_count, skipped_count>>
    /\ UNCHANGED OutsideOffice

AppOf(call) ==
    <<IF call.fn = "convert_pptx_to_pdf" THEN "PowerPoint.Application"
                                         ELSE "Excel.Application", call.input.name>>
DocOf(call) == <<"document", call.input.name>>

\* lines 35-36 / 98-100
CreateApp ==
    /\ opc = "create"
    /\ app' = AppOf(cur)
    /\ live_apps' = live_apps \cup {AppOf(cur)}
    /\ opc' = "open"
    /\ UNCHANGED <<odir, todo, cur, doc, open_docs, is_com_initialized, exit_code,
                   converted_count, skipped_count, calls, examined>>
    /\ UNCHANGED OutsideOffice

\* line 35 / 98 raises; lines 46-48 / 115-117
CreateAppFails ==
    /\ opc = "create"
    /\ opc' = "finally"
    /\ UNCHANGED <<odir, todo, cur, app, doc, live_apps, open_docs, is_com_initialized,
                   exit_code, converted_count, skipped_count, calls, examined>>
    /\ UNCHANGED OutsideOffice

\* line 35 / 98 succeeds, line 36 / 100 raises; lines 46-48 / 115-117
SetVisibleFails ==
    /\ opc = "create"
    /\ app' = AppOf(cur)
    /\ live_apps' = live_apps \cup {AppOf(cur)}
    /\ opc' = "finally"
    /\ UNCHANGED <<odir, todo, cur, doc, open_docs, is_com_initialized, exit_code,
                   converted_count, skipped_count, calls, examined>>
    /\ UNCHANGED OutsideOffice

\* lines 38-39 / 102-105
OpenDoc ==
    /\ opc = "open"
    /\ doc' = DocOf(cur)
    /\ open_docs' = open_docs \cup {DocOf(cur)}
    /\ opc' = "export"
    /\ UNCHANGED <<odir, todo, cur, app, live_apps, is_com_initialized, exit_code,
                   converted_count, skipped_count, calls, examined>>
    /\ UNCHANGED OutsideOffice

\* line 39 / 105 raises; lines 46-48 / 115-117
OpenDocFails ==
    /\ opc = "open"
    /\ opc' = "finally"
    /\ UNCHANGED <<odir, todo, cur, app, doc, live_apps, open_docs, is_com_initialized,
                   exit_code, converted_count, skipped_count, calls, examined>>
    /\ UNCHANGED OutsideOffice

\* lines 41-44 / 107-113
Export ==
    /\ opc = "export"
    /\ odir' = Write(odir, cur.output.name, ExportedPdf(cur.input))
    /\ opc' = "finally"
    /\ UNCHANGED <<todo, cur, app, doc, live_apps, open_docs, is_com_initialized,
                   exit_code, converted_count, skipped_count, calls, examined>>
    /\ UNCHANGED OutsideOffice

\* line 42 / 111 raises; lines 46-48 / 115-117
ExportFails ==
    /\ opc = "export"
    /\ opc' = "finally"
    /\ UNCHANGED <<odir, todo, cur, app, doc, live_apps, open_docs, is_com_initialized,
                   exit_code, converted_count, skipped_count, calls, examined>>
    /\ UNCHANGED OutsideOffice

\* lines 51-53 / 121-125: `if deck:` with the close succeeding, or no deck
CloseDoc ==
    /\ opc = "finally"
    /\ open_docs' = open_docs \ {doc}
    /\ opc' = "quit"
    /\ UNCHANGED <<odir, todo, cur, app, doc, live_apps, is_com_initialized, exit_code,
                   converted_count, skipped_count, calls, examined>>
    /\ UNCHANGED OutsideOffice

\* line 52 / 122 raises inside the finally block: the exception leaves the
\* converter and main(), lines 54-59 / 126-132 and 175 / 182 are not run
CloseDocFails ==
    /\ opc = "finally"
    /\ doc # NoObject
    /\ opc' = "raised"
    /\ UNCHANGED <<odir, todo, cur, app, doc, live_apps, open_docs, is_com_initialized,
                   exit_code, converted_count, skipped_count, calls, examined>>
    /\ UNCHANGED OutsideOffice

\* lines 54-59 / 126-132 with the quit succeeding, or no application; the
\* converter returns and line 175 / 182 counts the file
QuitApp ==
    /\ opc = "quit"
    /\ live_apps' = live_apps \ {app}
    /\ app' = NoObject
    /\ doc' = NoObject
    /\ cur' = <<>>
    /\ converted_count' = converted_count + 1
    /\ opc' = "loop"
    /\ UNCHANGED <<odir, todo, open_docs, is_com_initialized, exit_code, skipped_count,
                   calls, examined>>
    /\ UNCHANGED OutsideOffice

\* line 55 / 127 raises inside the finally block
QuitAppFails ==
    /\ opc = "quit"
    /\ app # NoObject
    /\ opc' = "raised"
    /\ UNCHANGED <<odir, todo, cur, app, doc, live_apps, open_docs, is_com_initialized,
                   exit_code, converted_count, skipped_count, calls, examined>>
    /\ UNCHANGED OutsideOffice

\* lines 184-190, 206-210: the loop is over, main() returns, exit status 0
MainReturns ==
    /\ opc = "loop"
    /\ todo = {}
    /\ exit_code' = 0
    /\ opc' = "exited"
    /\ UNCHANGED <<odir, todo, cur, app, doc, live_apps, open_docs, is_com_initialized,
                   converted_count,
                   skipped_count, calls, examined>>
    /\ UNCHANGED OutsideOffice

\* lines 200-210: an exception left main(): sys.exit(1)
MainRaised ==
    /\ opc = "raised"
    /\ exit_code' = 1
    /\ opc' = "exited"
    /\ UNCHANGED <<odir, todo, cur, app, doc, live_apps, open_docs, is_com_initialized,
                   converted_count,
                   skipped_count, calls, examined>>
    /\ UNCHANGED OutsideOffice

OfficeNext ==
    \/ CoInitialize
    \/ CoInitializeFails
    \/ SkipOtherFile
    \/ SkipConverted
    \/ StartConversion
    \/ CreateApp
    \/ CreateAppFails
    \/ SetVisibleFails
    \/ OpenDoc
    \/ OpenDocFails
    \/ Export
    \/ ExportFails
    \/ CloseDoc
    \/ CloseDocFails
    \/ QuitApp
    \/ QuitAppFails
    \/ MainReturns
    \/ MainRaised

\* lines 144-145, 195
OfficeStart ==
    /\ todo = {}
    /\ opc = "init"
    /\ cur = <<>>
    /\ app = NoObject
    /\ doc = NoObject
    /\ live_apps = {}
    /\ open_docs = {}
    /\ is_com_initialized = FALSE
    /\ exit_code = 0
    /\ converted_count = 0
    /\ skipped_count = 0
    /\ calls = <<>>
    /\ examined = <<>>

OfficeIdle == odir = <<>> /\ OfficeStart

----------------------------------------------------------------------------
(* The inputs and the specifications *)

\* The entries the scanned directory may hold
OfficeNames ==
    {<<"a", ".", "p", "p", "t", "x">>, <<"a", ".", "x", "l", "s", "x">>, <<"b", ".", "P", "P", "T", "X">>,
     <<"c", ".", "x", "l", "s">>, <<"d", ".", "p", "p", "t">>, <<".", "p", "p", "t", "x">>,
     <<"n", "o", "t", "e", "s", ".", "t", "x", "t">>, <<"a", ".", "p", "d", "f">>, <<"b", ".", "p", "d", "f">>}

InitOffice ==
    /\ \E names \in {S \in SUBSET OfficeNames : Cardinality(S) <= MaxFiles} :
          odir = [n \in names |-> IF EndsWith(n, DotPdf) THEN ExistingPdf ELSE OfficeFile]
    /\ OfficeStart
    /\ RenderStart
    /\ xlsx = <<>>
    /\ MainIdle

SpecOffice == InitOffice /\ [][OfficeNext]_vars

A_Pdf == <<"a", ".", "p", "d", "f">>
B_Pdf == <<"b", ".", "p", "d", "f">>
A_Xlsx == <<"a", ".", "x", "l", "s", "x">>
C_Xlsx == <<"c", ".", "x", "l", "s", "x">>
A_Converted == <<"a", "_", "c", "o", "n", "v", "e", "r", "t", "e", "d", ".", "p", "d", "f">>
Notes_Txt == <<"n", "o", "t", "e", "s", ".", "t", "x", "t">>

\* The PDF files a directory may hold under a name
PdfVariants(name) ==
    {PdfFile(PagesOf(name, n), TRUE, bad) : n \in 0..MaxPages, bad \in 0..MaxPages}
        \cup {PdfFile(PagesOf(name, n), FALSE, 0) : n \in 0..MaxPages}
GoodPdfVariants(name) ==
    {f \in PdfVariants(name) : f.bad <= Len(f.pages)}

\* The directories main() is started in
InitMain ==
    /\ \E a \in GoodPdfVariants(A_Pdf) \cup {Absent},
          b \in GoodPdfVariants(B_Pdf) \cup {Absent},
          ax \in {XlsxFile(TRUE), XlsxFile(FALSE), Absent},
          cx \in {XlsxFile(TRUE), Absent},
          ac \in {PdfFile(PagesOf(<<"o", "l", "d">>, 1), TRUE, 0), Absent},
          co \in {PdfFile(PagesOf(<<"o", "l", "d">>, 1), TRUE, 0), Absent} :
            LET all == (A_Pdf :> a) @@ (B_Pdf :> b) @@ (A_Xlsx :> ax) @@ (C_Xlsx :> cx)
                          @@ (A_Converted :> ac) @@ (CombinedName :> co)
                          @@ (Notes_Txt :> OtherFile)
            IN  fs = [n \in {m \in DOMAIN all : all[m].kind # "absent"} |-> all[n]]
    /\ MainStart
    /\ RenderStart
    /\ xlsx = <<>>
    /\ OfficeIdle

SpecMain == InitMain /\ [][MainNext]_vars

Sheet(name, rows) == [name |-> name, rows |-> rows]
SheetName(i) == <<"S">> \o Decimal(i)

\* Sequences over S of length lo..hi
SeqsOf(S, lo, hi) == UNION {[1..n -> S] : n \in lo..hi}

\* Row-filter inputs: one sheet of up to MaxRows rows, each blank (None,
\* empty or whitespace cells only) or not, of one to three cells
RowChoices ==
    { <<NoneCell>>,
      <<StrCell(<<" ">>), NoneCell>>,
      <<StrCell(<<>>), StrCell(<<"\t", " ">>), NoneCell>>,
      <<StrCell(<<" ", "a", "\t">>)>>,
      <<NoneCell, NumCell(10)>>,
      <<StrCell(<<"b">>), NoneCell, StrCell(<<" ">>)>>,
      <<NumCell(0)>> }

InitRows ==
    /\ xlsx \in {<<Sheet(SheetName(1), rows)>> : rows \in SeqsOf(RowChoices, 0, MaxRows)}
    /\ RenderStart
    /\ MainIdle
    /\ OfficeIdle

SpecRows == InitRows /\ [][RenderNext]_vars

\* Sheet-section inputs: workbooks of several sheets, empty or not
SheetChoices ==
    { <<>>,
      <<<<NoneCell, StrCell(<<" ">>)>>>>,
      <<<<StrCell(<<"a">>)>>>>,
      <<<<StrCell(<<"a">>), NoneCell>>, <<NoneCell>>, <<NumCell(3), StrCell(<<"b">>)>>>> }

InitSheets ==
    /\ \E n \in 1..MaxSheets :
          xlsx \in {[i \in 1..n |-> Sheet(SheetName(i), f[i])] : f \in [1..n -> SheetChoices]}
    /\ RenderStart
    /\ MainIdle
    /\ OfficeIdle

SpecSheets == InitSheets /\ [][RenderNext]_vars

\* Column-width inputs: one sheet of a header row and a body row; a header
\* cell is empty, of a length inside the clamp or longer than the cap, a
\* body cell is empty or longer than the cap
HeaderCells == {StrCell(Repeat("x", n)) : n \in {0, 20, 44}}
BodyCells == {StrCell(Repeat("x", n)) : n \in {0, 44}}

InitWidths ==
    /\ \E n \in 1..WMaxCols :
          xlsx \in {<<Sheet(SheetName(1), <<header, body>>)>> :
                        header \in [1..n -> HeaderCells], body \in [1..n -> BodyCells]}
    /\ RenderStart
    /\ MainIdle
    /\ OfficeIdle

SpecWidths == InitWidths /\ [][RenderNext]_vars

----------------------------------------------------------------------------
(* Properties of main() *)

Range(seq) == {seq[i] : i \in 1..Len(seq)}
IsPdfName(n) ==
    /\ Len(n) >= 4
    /\ n[Len(n) - 3] = "." /\ n[Len(n) - 2] = "p" /\ n[Len(n) - 1] = "d" /\ n[Len(n)] = "f"
\* The PDF files of the directory other than combined_output.pdf
EligiblePdfs == {n \in DOMAIN fs : IsPdfName(n) /\ n # CombinedName}
Readable(file) == file.openable /\ file.bad = 0
Merging == mpc \in {"merge", "raised"}
Wrote == mpc = "done" /\ log # <<>> /\ log[Len(log)] = <<"Successfully combined">>
ReportedNone == log # <<>> /\ log[Len(log)] = <<"No PDF files found to merge.">>
CombinedUntouched ==
    /\ CombinedName \in DOMAIN fs <=> CombinedName \in DOMAIN fs0
    /\ CombinedName \in DOMAIN fs => fs[CombinedName] = fs0[CombinedName]

\* C1: the merge inputs are exactly the *.pdf files of the directory other
\* than combined_output.pdf, in ascending filename order; when every input is
\* readable the pages written to combined_output.pdf are the inputs' pages
\* concatenated in that order, so their number is the sum of the inputs'
\* page counts.
C1_MergeConcatenatesSorted ==
    /\ (Merging \/ Wrote) =>
          /\ Range(pdf_files) = EligiblePdfs
          /\ \A i, j \in 1..Len(pdf_files) : i < j => LessStr(pdf_files[i], pdf_files[j])
    /\ (Wrote /\ \A n \in Range(pdf_files) : Readable(fs[n])) =>
          /\ fs[CombinedName].pages = Concat([i \in 1..Len(pdf_files) |-> fs[pdf_files[i]].pages])
          /\ Len(fs[CombinedName].pages)
                = SumSeq([i \in 1..Len(pdf_files) |-> Len(fs[pdf_files[i]].pages)])

\* C1 witness: three readable inputs, one of them converted in this run, an
\* older combined_output.pdf in the directory, and the output written
C1_Witness ==
    /\ Wrote
    /\ Len(pdf_files) >= 3
    /\ \A n \in Range(pdf_files) : Readable(fs[n])
    /\ Range(converted_pdfs) # {}
    /\ CombinedName \in DOMAIN fs0
    /\ Len(fs[CombinedName].pages) >= 4

\* C2: an input whose read raises, at open or while its pages are iterated,
\* has none of its pages in the combined output, and all pages of every
\* readable input are in it, in sorted order.
C2_FailedInputContributesNothing ==
    Wrote =>
        fs[CombinedName].pages
            = Concat([i \in 1..Len(pdf_files) |->
                        IF ReadRaises(fs[pdf_files[i]]) THEN <<>> ELSE fs[pdf_files[i]].pages])

\* C5: with no PDF file other than combined_output.pdf in the directory after
\* the conversion pass, main() reports that none was found and returns;
\* combined_output.pdf is neither created nor changed.
C5_NoInputsNoWrite ==
    (mpc \in {"merge", "raised", "done"} /\ EligiblePdfs = {}) =>
        /\ mpc = "done"
        /\ ReportedNone
        /\ merger = <<>>
        /\ CombinedUntouched

\* C5 witness: main() returned from a directory that holds an older
\* combined_output.pdf and a workbook that failed to convert, and no input
C5_Witness ==
    /\ mpc = "done"
    /\ ReportedNone
    /\ EligiblePdfs = {}
    /\ CombinedName \in DOMAIN fs
    /\ xlsx_files # <<>>

FailedWorkbooks == {e[2] : e \in {x \in Range(log) : x[1] = "Error converting"}}

\* C8: a workbook whose conversion failed is not recorded as converted, every
\* workbook is attempted before the merge step, and the failed workbook
\* leaves no output PDF for the merge step to pick up: an output of that
\* name among the merge inputs is the file that was there before the run.
C8_FailedWorkbookLeavesNoOutput ==
    /\ \A x \in FailedWorkbooks : OutputPdf(x) \notin Range(converted_pdfs)
    /\ mpc \in {"merge", "raised", "done"} => xlsx_done = Len(xlsx_files)
    /\ \A x \in FailedWorkbooks :
          OutputPdf(x) \in Range(pdf_files) =>
              /\ OutputPdf(x) \in DOMAIN fs0
              /\ fs[OutputPdf(x)] = fs0[OutputPdf(x)]

----------------------------------------------------------------------------
(* Properties of convert_ms_files.py *)

ConverterLeft == opc \in {"loop", "raised", "exited"}

\* C6: when a converter has been left, on every path, each application
\* instance it created has been quit and each document it opened has been
\* closed.
C6_EverythingReleased == ConverterLeft => (live_apps = {} /\ open_docs = {})

\* C7: the exit status is non-zero only when CoInitialize failed, and a
\* failure inside one file's conversion does not keep the remaining entries
\* of the directory from being processed.
C7_ExitCodeOnlyFromInit ==
    opc = "exited" =>
        /\ exit_code # 0 => ~is_com_initialized
        /\ is_com_initialized => todo = {}

\* A file name read as <stem>.<extension>: the part before the last dot, and
\* the lower-cased part after it
NameStem(file) == SubSeq(file, 1, LastDot(file) - 1)
NameExt(file) == Lower(SubSeq(file, LastDot(file) + 1, Len(file)))
HasOfficeExt(file) ==
    /\ \E i \in 1..(LastDot(file) - 1) : file[i] # "."
    /\ NameExt(file) \in {<<"p", "p", "t", "x">>, <<"p", "p", "t">>, <<"x", "l", "s", "x">>, <<"x", "l", "s">>}
ExpectedPdf(file) == NameStem(file) \o <<".", "p", "d", "f">>
CallsFor(file) == {i \in 1..Len(calls) : calls[i].input.name = file}
\* An examined office file whose <stem>.pdf existed / did not exist then
WasSkippable(e) == HasOfficeExt(e.file) /\ ExpectedPdf(e.file) \in DOMAIN e.dir
WasConvertible(e) == HasOfficeExt(e.file) /\ ExpectedPdf(e.file) \notin DOMAIN e.dir
SkippedEntries == {k \in 1..Len(examined) : WasSkippable(examined[k])}
AttemptedEntries == {k \in 1..Len(examined) : WasConvertible(examined[k])}

----------------------------------------------------------------------------
(* Properties of the renderer *)

\* The sheet the loop processed last
LastSheet == wb[sheet_idx]
SheetDone == rpc = "sheets" /\ sheet_idx >= 1

\* A cell is non-blank when its string holds a character that is not whitespace
NonBlankCell(cell) == \E k \in 1..Len(CellStr(cell)) : ~IsSpace(CellStr(cell)[k])
NonBlankRows(rows) ==
    {i \in 1..Len(rows) : \E j \in 1..Len(rows[i]) : NonBlankCell(rows[i][j])}
\* The k-th smallest element of a set of numbers
KthOf(S, k) == CHOOSE i \in S : Cardinality({j \in S : j < i}) = k - 1
WidestOf(rows, S) ==
    IF S = {} THEN 0 ELSE CHOOSE m \in {Len(rows[i]) : i \in S} :
                              \A i \in S : Len(rows[i]) <= m

\* C3: the table data of a processed sheet has exactly N rows (N the number
\* of sheet rows with a cell that is non-blank after trimming), in sheet
\* order, each of exactly M cells (M the largest cell count among those
\* rows, shorter rows padded at the end with empty strings), and none of its
\* rows is entirely blank; the rendered table has the same shape.
C3_TableShape ==
    SheetDone =>
        LET rows == LastSheet.rows
            S    == NonBlankRows(rows)
            N    == Cardinality(S)
            M    == WidestOf(rows, S)
        IN  /\ Len(data) = N
            /\ max_col_count = M
            /\ \A k \in 1..N :
                  LET src == rows[KthOf(S, k)]
                  IN  /\ Len(data[k]) = M
                      /\ \A c \in 1..Len(src) : data[k][c] = CellStr(src[c])
                      /\ \A c \in (Len(src) + 1)..M : data[k][c] = <<>>
                      /\ \E c \in 1..M : \E x \in 1..Len(data[k][c]) :
                            ~IsSpace(data[k][c][x])
            /\ N > 0 =>
                  LET t == elements[Len(elements) - 1]
                  IN  /\ t.type = "Table"
                      /\ Len(t.cells) = N
                      /\ \A k \in 1..N : Len(t.cells[k]) = M

\* C3 witness: a sheet whose blank row was dropped and whose shorter kept
\* row was padded
C3_Witness ==
    /\ SheetDone
    /\ Len(data) = 2
    /\ Len(LastSheet.rows) > Len(data)
    /\ \E i \in 1..Len(LastSheet.rows) : \E j \in 1..Len(LastSheet.rows[i]) :
          LastSheet.rows[i][j].t = "str" /\ LastSheet.rows[i][j].s # <<>>
                                       /\ i \notin NonBlankRows(LastSheet.rows)
    /\ \E i \in NonBlankRows(LastSheet.rows) : Len(LastSheet.rows[i]) < max_col_count

\* The estimate of column c: longest cell times the factor, clamped
LongestIn(d, c) ==
    CHOOSE n \in {Len(d[r][c]) : r \in 1..Len(d)} : \A r \in 1..Len(d) : Len(d[r][c]) <= n
ClampedEstimate(d, c) ==
    LET w == PerChar * LongestIn(d, c)
    IN  IF w < MinWidth THEN MinWidth ELSE IF w > MaxWidth THEN MaxWidth ELSE w
TotalEstimate(d) == SumSeq([c \in 1..Len(d[1]) |-> ClampedEstimate(d, c)])
ExceedsPage(d) == TotalEstimate(d) * AvailDen > AvailNum

\* C4: each column's estimated width is its longest cell length times the
\* per-character factor, clamped to [MinWidth, MaxWidth]; when the estimates
\* sum to more than the available width every width is the estimate times
\* available/total, the final widths sum to the available width and the
\* ratio of any two columns is that of their estimates; otherwise the
\* widths are the estimates.  The table is created with these widths.
C4_ColumnWidths ==
    (SheetDone /\ data # <<>>) =>
        LET cols == 1..max_col_count
            est(c) == ClampedEstimate(data, c)
        IN  /\ Len(col_widths) = max_col_count
            /\ elements[Len(elements) - 1].colWidths = col_widths
            /\ ~ExceedsPage(data) => \A c \in cols : col_widths[c] = <<est(c), 1>>
            /\ ExceedsPage(data) =>
                  /\ \A c \in cols :
                        Reduce(col_widths[c])
                            = Reduce(<<est(c) * AvailNum, TotalEstimate(data) * AvailDen>>)
                  /\ \A c \in cols : col_widths[c][2] = col_widths[1][2]
                  /\ Reduce(<<SumSeq([c \in cols |-> col_widths[c][1]]), col_widths[1][2]>>)
                        = Reduce(<<AvailNum, AvailDen>>)
                  /\ \A c1, c2 \in cols :
                        Reduce(<<col_widths[c1][1], col_widths[c2][1]>>)
                            = Reduce(<<est(c1), est(c2)>>)

\* C4 witness: a table too wide for the page, with a column at the minimum
\* and a column at the cap, the longest cell in the header for one column and
\* in the body for another, has been scaled
C4_Witness ==
    /\ SheetDone
    /\ Len(data) = 2
    /\ ExceedsPage(data)
    /\ \E c \in 1..max_col_count : PerChar * LongestIn(data, c) < MinWidth
    /\ \E c \in 1..max_col_count : PerChar * LongestIn(data, c) > MaxWidth
    /\ \E c1, c2 \in 1..max_col_count :
          LongestIn(data, c1) = Len(data[1][c1]) /\ LongestIn(data, c2) > Len(data[1][c2])
    /\ col_widths[1][2] # 1

\* The kinds of the layout blocks, with the text of the headings
BlockKinds(blocks) ==
    [i \in 1..Len(blocks) |->
        IF blocks[i].type = "Heading" THEN <<"Heading", blocks[i].text>>
        ELSE <<blocks[i].type>>]
Renders(sheet) == NonBlankRows(sheet.rows) # {}
RenderedBefore(i) == {j \in 1..(i - 1) : Renders(wb[j])}

\* The sections if only the sheets that render a table contributed blocks
SectionsOfRenderedOnly ==
    Concat([i \in 1..sheet_idx |->
        IF Renders(wb[i])
        THEN (IF Len(wb) > 1
              THEN (IF RenderedBefore(i) # {} THEN <<<<"PageBreak">>>> ELSE <<>>)
                      \o <<<<"Heading", wb[i].name>>, <<"Spacer">>>>
              ELSE <<>>)
                 \o <<<<"Table">>, <<"Spacer">>>>
        ELSE <<>>])

\* C10: a sheet without kept rows contributes no layout block at all (no
\* table, heading, spacer or page break); page breaks and headings appear
\* only for the sheets that render a table, a page break between consecutive
\* rendered sections and none before the first.
C10_EmptySheetContributesNothing ==
    rpc = "sheets" => BlockKinds(elements) = SectionsOfRenderedOnly

====
